---- MODULE Spec2Model ----
(***************************************************************************)
(* ferrisetw: the Schema property cache (src/src/schema.rs) and the serde  *)
(* bridge (src/src/ser.rs): type resolver, event-fields visit.             *)
(***************************************************************************)
EXTENDS Integers, Sequences, FiniteSets, TLC

VARIABLES
    te_info,            \* Schema::te_info of every schema (immutable input)
    cached_properties,  \* Schema::cached_properties, the OnceCell of every schema
    parse_count,        \* how many times the get_or_init closure ran, per schema
    ret,                \* what the last Schema operation returned
    ret_lenient,        \* what properties() last returned, per schema
    ret_strict,         \* what try_properties() last returned, per schema
    once_state,         \* state word of the sync OnceCell of schema 1
    pc,                 \* position of every thread inside its accessor call
    acc,                \* the accessor every thread is calling
    tret,               \* what every thread's call returned
    r_info,             \* the PropertyInfo given to get_parser
    r_out,              \* what get_parser returned for it
    p_req,              \* the (name, T) of the last try_parse request
    p_res,              \* what that try_parse returned
    options,            \* EventSerializerOptions of the visit
    record,             \* the EventRecord: pointer size and payload extent
    v_pc,               \* position inside EventSer::serialize
    v_props,            \* local `props` of EventSer::serialize
    v_len,              \* local `len` of EventSer::serialize
    v_idx,              \* index of the emit loop
    v_map,              \* the output sink's map: opened, declared length, entries, ended
    v_err,              \* the error the visit returned
    header,             \* record.EventHeader, the EVENT_HEADER of the record
    rec_pc,             \* position inside EventSerializer::serialize
    rec_out,            \* the output sink's "Record" struct: declared length, entries, ended
    rec_err             \* the error EventSerializer::serialize returned

schemaVars == <<te_info, cached_properties, parse_count, ret, ret_lenient, ret_strict>>
concVars   == <<once_state, pc, acc, tret>>
resVars    == <<r_info, r_out>>
parserVars == <<p_req, p_res>>
visitVars  == <<options, record, v_pc, v_props, v_len, v_idx, v_map, v_err>>
recVars    == <<header, rec_pc, rec_out, rec_err>>
vars == <<schemaVars, concVars, resVars, parserVars, visitVars, recVars>>

(***************************************************************************)
(* Bounds                                                                  *)
(***************************************************************************)
MaxRaw == 2        \* longest raw property list of a schema in the Schema specifications
MaxProps == 3      \* longest raw property list in the visit specification
MaxFields == 2     \* longest raw property list in the field accessor specification
NumThreads == 2    \* threads racing on one Schema

(***************************************************************************)
(* Wire types (crate::native::tdh_types, as matched in ser.rs)             *)
(***************************************************************************)
TdhInType ==
    {"InTypeNull", "InTypeUnicodeString", "InTypeAnsiString", "InTypeInt8",
     "InTypeUInt8", "InTypeInt16", "InTypeUInt16", "InTypeInt32", "InTypeUInt32",
     "InTypeInt64", "InTypeUInt64", "InTypeFloat", "InTypeDouble", "InTypeBoolean",
     "InTypeBinary", "InTypeGuid", "InTypePointer", "InTypeFileTime",
     "InTypeSystemTime", "InTypeSid", "InTypeHexInt32", "InTypeHexInt64",
     "InTypeCountedString"}

TdhOutType ==
    {"OutTypeNull", "OutTypeString", "OutTypeDateTime", "OutTypeHexInt32",
     "OutTypeIpv4", "OutTypeIpv6"}

PropertyInfoKind == {"Value", "Array"}

Counts == {0, 2}

PropertyInfo ==
    [kind : PropertyInfoKind, in_type : TdhInType, out_type : TdhOutType, count : Counts]

PropHandler ==
    {"Null", "Bool", "Int8", "UInt8", "Int16", "UInt16", "Int32", "UInt32", "Int64",
     "UInt64", "Pointer", "Float", "Double", "String", "FileTime", "SystemTime",
     "Guid", "Binary", "IpAddr", "ArrayInt16", "ArrayUInt16", "ArrayInt32",
     "ArrayUInt32", "ArrayInt64", "ArrayUInt64", "ArrayPointer"}

NoParser == "None"

(***************************************************************************)
(* Type resolver: PropertyInfo::get_parser                                 *)
(***************************************************************************)
ValueInTypeParser(in_type) ==
    CASE in_type = "InTypeNull" -> "Null"
      [] in_type = "InTypeUnicodeString" -> "String"
      [] in_type = "InTypeAnsiString" -> "String"
      [] in_type = "InTypeInt8" -> "Int8"
      [] in_type = "InTypeUInt8" -> "UInt8"
      [] in_type = "InTypeInt16" -> "Int16"
      [] in_type = "InTypeUInt16" -> "UInt16"
      [] in_type = "InTypeInt32" -> "Int32"
      [] in_type = "InTypeUInt32" -> "UInt32"
      [] in_type = "InTypeInt64" -> "Int64"
      [] in_type = "InTypeUInt64" -> "UInt64"
      [] in_type = "InTypeFloat" -> "Float"
      [] in_type = "InTypeDouble" -> "Double"
      [] in_type = "InTypeBoolean" -> "Bool"
      [] in_type = "InTypeBinary" -> "Binary"
      [] in_type = "InTypeGuid" -> "Guid"
      [] in_type = "InTypePointer" -> "Pointer"
      [] in_type = "InTypeFileTime" -> "FileTime"
      [] in_type = "InTypeSystemTime" -> "SystemTime"
      [] in_type = "InTypeSid" -> "String"
      [] in_type = "InTypeHexInt32" -> "Int32"
      [] in_type = "InTypeHexInt64" -> "Int64"
      [] in_type = "InTypeCountedString" -> NoParser

ArrayInTypeParser_NoPointer(in_type) ==
    CASE in_type = "InTypeInt16" -> "ArrayInt16"
      [] in_type = "InTypeUInt16" -> "ArrayUInt16"
      [] in_type = "InTypeInt32" -> "ArrayInt32"
      [] in_type = "InTypeUInt32" -> "ArrayUInt32"
      [] in_type = "InTypeInt64" -> "ArrayInt64"
      [] in_type = "InTypeUInt64" -> "ArrayUInt64"
      [] OTHER -> NoParser

ArrayInTypeParser(in_type) ==
    CASE in_type = "InTypeInt16" -> "ArrayInt16"
      [] in_type = "InTypeUInt16" -> "ArrayUInt16"
      [] in_type = "InTypeInt32" -> "ArrayInt32"
      [] in_type = "InTypeUInt32" -> "ArrayUInt32"
      [] in_type = "InTypeInt64" -> "ArrayInt64"
      [] in_type = "InTypeUInt64" -> "ArrayUInt64"
      [] in_type = "InTypePointer" -> "ArrayPointer"
      [] OTHER -> NoParser

get_parser_InTypeOnly(info) ==
    IF info.kind = "Value"
    THEN ValueInTypeParser(info.in_type)
    ELSE ArrayInTypeParser(info.in_type)

get_parser(info) ==
    IF info.kind = "Value"
    THEN IF info.out_type = "OutTypeIpv4" THEN "IpAddr"
         ELSE IF info.out_type = "OutTypeIpv6" THEN "IpAddr"
         ELSE ValueInTypeParser(info.in_type)
    ELSE ArrayInTypeParser(info.in_type)

(***************************************************************************)
(* Values that stand for "nothing yet" in the variables of a specification *)
(***************************************************************************)
NoInfo == [kind |-> "Value", in_type |-> "InTypeNull", out_type |-> "OutTypeNull", count |-> 0]

(***************************************************************************)
(* Properties and the raw list te_info.properties() yields                 *)
(***************************************************************************)
Prop(name, kind, in_type, out_type, count) ==
    [name |-> name,
     info |-> [kind |-> kind, in_type |-> in_type, out_type |-> out_type, count |-> count]]

\* One item of the iterator te_info.properties(): Result<Property, PropertyError>
OkItem(p) == [is_err |-> FALSE, prop |-> p]
ErrItem(name) == [is_err |-> TRUE, prop |-> Prop(name, "Value", "InTypeNull", "OutTypeNull", 0)]

QueryName == Prop("QueryName", "Value", "InTypeUnicodeString", "OutTypeString", 0)
Status    == Prop("Status", "Value", "InTypeInt32", "OutTypeNull", 0)

SchemaItems == {OkItem(QueryName), ErrItem("Opaque")}

RECURSIVE SeqsUpTo(_, _)
SeqsUpTo(S, n) ==
    IF n = 0 THEN {<<>>}
    ELSE LET shorter == SeqsUpTo(S, n - 1)
         IN shorter \cup {Append(q, x) : q \in {t \in shorter : Len(t) = n - 1}, x \in S}

Schemas == {1, 2}

(***************************************************************************)
(* Schema (src/src/schema.rs)                                              *)
(***************************************************************************)
\* Result<Vec<Property>, PropertyError>; err is the payload of UnimplementedType
Ok(list) == [ok |-> TRUE, val |-> list, err |-> "-"]
Err(e) == [ok |-> FALSE, val |-> <<>>, err |-> e]

\* OnceCell::new()
EmptyCell == [init |-> FALSE, ok |-> FALSE, val |-> <<>>, err |-> "-"]
FullCell(r) == [init |-> TRUE, ok |-> r.ok, val |-> r.val, err |-> r.err]

\* self.te_info.properties(): the items the n-th traversal of the raw list yields
properties_iter(te, n) == IF n = 0 THEN te.properties ELSE te.properties_again

\* the closure given to get_or_init: push every item, `?` returns the first Err
RECURSIVE CollectFrom(_, _, _)
CollectFrom(items, i, cache) ==
    IF i > Len(items) THEN Ok(cache)
    ELSE IF items[i].is_err THEN Err(items[i].prop.name)
    ELSE CollectFrom(items, i + 1, Append(cache, items[i].prop))

CollectProperties(items) == CollectFrom(items, 1, <<>>)

\* OnceCell::get_or_init runs its closure only on a cell that holds no value
RunsInit_Always(cell) == TRUE

RunsInit(cell) == ~cell.init

get_or_init(cell, r) == IF RunsInit(cell) THEN FullCell(r) ELSE cell

\* the match on the cell's content that ends try_properties
CellResult(cell) == IF cell.ok THEN Ok(cell.val) ELSE Err(cell.err)

\* properties(): the match on try_properties()
LenientOf_KeepsError(r) ==
    IF r.ok THEN [val |-> r.val, logged |-> FALSE]
    ELSE [val |-> <<[name |-> r.err, info |-> NoInfo]>>, logged |-> TRUE]

LenientOf(r) ==
    IF r.ok THEN [val |-> r.val, logged |-> FALSE]
    ELSE [val |-> <<>>, logged |-> TRUE]

\* impl PartialEq for Schema
SchemaEq_WithFields(a, b) ==
    /\ a.event_id = b.event_id
    /\ a.provider_guid = b.provider_guid
    /\ a.event_version = b.event_version
    /\ a.properties = b.properties

SchemaEq(a, b) ==
    /\ a.event_id = b.event_id
    /\ a.provider_guid = b.provider_guid
    /\ a.event_version = b.event_version

provider_name(te) == te.provider_name
task_name(te) == te.task_name
opcode_name(te) == te.opcode_name
decoding_source(te) == te.decoding_source

TeInfo(id, guid, ver, pname, items, again) ==
    [event_id |-> id, provider_guid |-> guid, event_version |-> ver,
     provider_name |-> pname, task_name |-> "task", opcode_name |-> "Info",
     decoding_source |-> "DecodingSourceXMLFile",
     properties |-> items, properties_again |-> again]

NoRet == [op |-> "none", schema |-> 0, res |-> 0]
NotCalled == [called |-> FALSE, ok |-> FALSE, val |-> <<>>, err |-> "-", logged |-> FALSE]

\* the cache and the parse count after one call of try_properties on schema s
CellAfter(s) ==
    get_or_init(cached_properties[s],
                CollectProperties(properties_iter(te_info[s], parse_count[s])))

CountAfter(s) ==
    IF RunsInit(cached_properties[s]) THEN parse_count[s] + 1 ELSE parse_count[s]

MaxParses == 3

TryProperties(s) ==
    /\ parse_count[s] < MaxParses
    /\ LET r == CellResult(CellAfter(s))
       IN /\ cached_properties' = [cached_properties EXCEPT ![s] = CellAfter(s)]
          /\ parse_count' = [parse_count EXCEPT ![s] = CountAfter(s)]
          /\ ret' = [op |-> "try_properties", schema |-> s, res |-> r]
          /\ ret_strict' = [ret_strict EXCEPT
                              ![s] = [called |-> TRUE, ok |-> r.ok, val |-> r.val,
                                      err |-> r.err, logged |-> FALSE]]
    /\ UNCHANGED <<te_info, ret_lenient>>
    /\ UNCHANGED <<concVars, resVars, parserVars, visitVars, recVars>>

Properties(s) ==
    /\ parse_count[s] < MaxParses
    /\ LET l == LenientOf(CellResult(CellAfter(s)))
       IN /\ cached_properties' = [cached_properties EXCEPT ![s] = CellAfter(s)]
          /\ parse_count' = [parse_count EXCEPT ![s] = CountAfter(s)]
          /\ ret' = [op |-> "properties", schema |-> s, res |-> l]
          /\ ret_lenient' = [ret_lenient EXCEPT
                               ![s] = [called |-> TRUE, ok |-> TRUE, val |-> l.val,
                                       err |-> "-", logged |-> l.logged]]
    /\ UNCHANGED <<te_info, ret_strict>>
    /\ UNCHANGED <<concVars, resVars, parserVars, visitVars, recVars>>

Eq(a, b) ==
    /\ ret' = [op |-> "eq", schema |-> a, other |-> b,
               res |-> SchemaEq(te_info[a], te_info[b])]
    /\ UNCHANGED <<te_info, cached_properties, parse_count, ret_lenient, ret_strict>>
    /\ UNCHANGED <<concVars, resVars, parserVars, visitVars, recVars>>

ProviderName(s) ==
    /\ ret' = [op |-> "provider_name", schema |-> s, res |-> provider_name(te_info[s])]
    /\ UNCHANGED <<te_info, cached_properties, parse_count, ret_lenient, ret_strict>>
    /\ UNCHANGED <<concVars, resVars, parserVars, visitVars, recVars>>

TaskName(s) ==
    /\ ret' = [op |-> "task_name", schema |-> s, res |-> task_name(te_info[s])]
    /\ UNCHANGED <<te_info, cached_properties, parse_count, ret_lenient, ret_strict>>
    /\ UNCHANGED <<concVars, resVars, parserVars, visitVars, recVars>>

OpcodeName(s) ==
    /\ ret' = [op |-> "opcode_name", schema |-> s, res |-> opcode_name(te_info[s])]
    /\ UNCHANGED <<te_info, cached_properties, parse_count, ret_lenient, ret_strict>>
    /\ UNCHANGED <<concVars, resVars, parserVars, visitVars, recVars>>

DecodingSource(s) ==
    /\ ret' = [op |-> "decoding_source", schema |-> s, res |-> decoding_source(te_info[s])]
    /\ UNCHANGED <<te_info, cached_properties, parse_count, ret_lenient, ret_strict>>
    /\ UNCHANGED <<concVars, resVars, parserVars, visitVars, recVars>>

(***************************************************************************)
(* Initial values of the groups of variables a specification does not use  *)
(***************************************************************************)
Threads == 1..NumThreads

NoRecord == [pointer_size |-> 8, readable |-> 0, fail_at |-> 0, fail_kind |-> "-"]

NoError == [kind |-> "-", name |-> "-", in_type |-> "-", out_type |-> "-", count |-> 0]

NoParse == [called |-> FALSE, ok |-> FALSE, err |-> "-", field |-> 0, T |-> "-"]

SchemaFresh ==
    /\ cached_properties = [s \in Schemas |-> EmptyCell]
    /\ parse_count = [s \in Schemas |-> 0]
    /\ ret = NoRet
    /\ ret_lenient = [s \in Schemas |-> NotCalled]
    /\ ret_strict = [s \in Schemas |-> NotCalled]

OtherTeInfo == TeInfo(2, "g2", 0, "Other-Provider", <<OkItem(Status)>>, <<OkItem(Status)>>)

ConcIdle ==
    /\ once_state = "INCOMPLETE"
    /\ pc = [t \in Threads |-> "idle"]
    /\ acc = [t \in Threads |-> "none"]
    /\ tret = [t \in Threads |-> NotCalled]

ResIdle == r_info = NoInfo /\ r_out = "unresolved"

ParserIdle == p_req = [name |-> "-", T |-> "-"] /\ p_res = NoParse

DefaultOptions ==
    [include_schema |-> TRUE, include_header |-> TRUE,
     include_extended_data |-> FALSE, fail_unimplemented |-> FALSE]

NoMap == [open |-> FALSE, declared |-> 0, entries |-> <<>>, ended |-> FALSE]

RecordIdle == record = NoRecord

\* no serialization of a whole record is under way
NoHeader ==
    [Size |-> 0, HeaderType |-> 0, Flags |-> 0, EventProperty |-> 0, ThreadId |-> 0,
     ProcessId |-> 0, TimeStamp |-> 0, ProviderId |-> "-", ActivityId |-> "-",
     EventDescriptor |-> [Id |-> 0, Version |-> 0, Channel |-> 0, Level |-> 0,
                          Opcode |-> 0, Task |-> 0, Keyword |-> 0]]

NoStruct == [name |-> "-", declared |-> 0, log |-> <<>>, ended |-> FALSE]

RecIdle ==
    /\ header = NoHeader
    /\ rec_pc = "idle"
    /\ rec_out = NoStruct
    /\ rec_err = NoError

VisitIdle ==
    /\ options = DefaultOptions
    /\ v_pc = "start"
    /\ v_props = <<>>
    /\ v_len = 0
    /\ v_idx = 0
    /\ v_map = NoMap
    /\ v_err = NoError

(***************************************************************************)
(* Specification of the Schema operations, called one at a time            *)
(***************************************************************************)
RawLists == SeqsUpTo(SchemaItems, MaxRaw)
AgainLists == SeqsUpTo(SchemaItems, 1)

\* identity triples of the second schema: equal to the first, or differing in one member
OtherIdentities ==
    {<<1, "g1", 0>>, <<2, "g1", 0>>, <<1, "g2", 0>>, <<1, "g1", 1>>}

OtherLists == {<<OkItem(QueryName)>>, <<ErrItem("Opaque")>>}

InitSchema ==
    /\ \E items \in RawLists, again \in AgainLists,
          ident \in OtherIdentities, items2 \in OtherLists :
          te_info = [s \in Schemas |->
                       IF s = 1
                       THEN TeInfo(1, "g1", 0, "Microsoft-Windows-DNS-Client", items, again)
                       ELSE TeInfo(ident[1], ident[2], ident[3], "Other-Provider",
                                   items2, items2)]
    /\ SchemaFresh
    /\ ConcIdle /\ ResIdle /\ ParserIdle /\ VisitIdle /\ RecordIdle /\ RecIdle

NextSchema ==
    \/ \E s \in Schemas : TryProperties(s)
    \/ \E s \in Schemas : Properties(s)
    \/ \E a \in Schemas, b \in Schemas : Eq(a, b)
    \/ \E s \in Schemas : ProviderName(s)
    \/ \E s \in Schemas : TaskName(s)
    \/ \E s \in Schemas : OpcodeName(s)
    \/ \E s \in Schemas : DecodingSource(s)

SpecSchema == InitSchema /\ [][NextSchema]_vars

(***************************************************************************)
(* Specification of threads racing on the accessors of one Schema          *)
(* (cached_properties is a once_cell::sync::OnceCell)                      *)
(***************************************************************************)
Accessors == {"properties", "try_properties"}

\* sync OnceCell: only a thread that moves the state word from INCOMPLETE to RUNNING
\* runs the closure
CanInit_Racy(state) == state # "COMPLETE"

CanInit(state) == state = "INCOMPLETE"

\* what an accessor returns once the cell holds a value
AccessorResult(a, cell) ==
    IF a = "try_properties"
    THEN [called |-> TRUE, ok |-> cell.ok, val |-> CellResult(cell).val,
          err |-> CellResult(cell).err, logged |-> FALSE]
    ELSE [called |-> TRUE, ok |-> TRUE, val |-> LenientOf(CellResult(cell)).val,
          err |-> "-", logged |-> LenientOf(CellResult(cell)).logged]

Call(t, a) ==
    /\ pc[t] = "idle"
    /\ pc' = [pc EXCEPT ![t] = "get"]
    /\ acc' = [acc EXCEPT ![t] = a]
    /\ UNCHANGED <<once_state, tret, schemaVars>>
    /\ UNCHANGED <<resVars, parserVars, visitVars, recVars>>

\* get_or_init: the fast path reads the state word
FastPath(t) ==
    /\ pc[t] = "get"
    /\ pc' = [pc EXCEPT ![t] = IF once_state = "COMPLETE" THEN "read" ELSE "initialize"]
    /\ UNCHANGED <<once_state, acc, tret, schemaVars>>
    /\ UNCHANGED <<resVars, parserVars, visitVars, recVars>>

\* the slow path: become the initializer
BecomeInitializer(t) ==
    /\ pc[t] = "initialize"
    /\ CanInit(once_state)
    /\ once_state' = "RUNNING"
    /\ pc' = [pc EXCEPT ![t] = "running"]
    /\ UNCHANGED <<acc, tret, schemaVars>>
    /\ UNCHANGED <<resVars, parserVars, visitVars, recVars>>

\* the slow path: another thread completed the cell meanwhile (a waiter is woken)
WaitDone(t) ==
    /\ pc[t] = "initialize"
    /\ once_state = "COMPLETE"
    /\ pc' = [pc EXCEPT ![t] = "read"]
    /\ UNCHANGED <<once_state, acc, tret, schemaVars>>
    /\ UNCHANGED <<resVars, parserVars, visitVars, recVars>>

\* the initializer runs the closure, stores its value and completes the cell
RunClosure(t) ==
    /\ pc[t] = "running"
    /\ parse_count[1] < MaxParses
    /\ cached_properties' =
          [cached_properties EXCEPT
             ![1] = FullCell(CollectProperties(properties_iter(te_info[1], parse_count[1])))]
    /\ parse_count' = [parse_count EXCEPT ![1] = parse_count[1] + 1]
    /\ once_state' = "COMPLETE"
    /\ pc' = [pc EXCEPT ![t] = "read"]
    /\ UNCHANGED <<acc, tret, te_info, ret, ret_lenient, ret_strict>>
    /\ UNCHANGED <<resVars, parserVars, visitVars, recVars>>

Return(t) ==
    /\ pc[t] = "read"
    /\ tret' = [tret EXCEPT ![t] = AccessorResult(acc[t], cached_properties[1])]
    /\ pc' = [pc EXCEPT ![t] = "done"]
    /\ UNCHANGED <<once_state, acc, schemaVars>>
    /\ UNCHANGED <<resVars, parserVars, visitVars, recVars>>

InitConc ==
    /\ \E items \in RawLists, again \in AgainLists :
          te_info = [s \in Schemas |->
                       IF s = 1
                       THEN TeInfo(1, "g1", 0, "Microsoft-Windows-DNS-Client", items, again)
                       ELSE OtherTeInfo]
    /\ SchemaFresh
    /\ ConcIdle /\ ResIdle /\ ParserIdle /\ VisitIdle /\ RecordIdle /\ RecIdle

NextConc ==
    \/ \E t \in Threads, a \in Accessors : Call(t, a)
    \/ \E t \in Threads : FastPath(t)
    \/ \E t \in Threads : BecomeInitializer(t)
    \/ \E t \in Threads : WaitDone(t)
    \/ \E t \in Threads : RunClosure(t)
    \/ \E t \in Threads : Return(t)

SpecConc == InitConc /\ [][NextConc]_vars

(***************************************************************************)
(* Specification of the type resolver                                      *)
(***************************************************************************)
InitResolver ==
    /\ r_info \in PropertyInfo
    /\ r_out = "unresolved"
    /\ te_info = [s \in Schemas |-> OtherTeInfo]
    /\ SchemaFresh /\ ConcIdle /\ ParserIdle /\ VisitIdle /\ RecordIdle /\ RecIdle

Resolve ==
    /\ r_out = "unresolved"
    /\ r_out' = get_parser(r_info)
    /\ UNCHANGED <<r_info, schemaVars, concVars, parserVars, visitVars, recVars>>

NextResolver == Resolve

SpecResolver == InitResolver /\ [][NextResolver]_vars

(***************************************************************************)
(* Serde bridge (src/src/ser.rs): PropHandler::ser and EventSer::serialize *)
(***************************************************************************)
\* the type PropHandler::ser asks the parser for; Null asks for nothing. Pointer and
\* ArrayPointer (lines 381-394) ask by record.pointer_size(), 4 or not 4
HandlerType_HostPointer(handler, pointer_size) ==
    CASE handler = "Bool" -> "bool"
      [] handler = "Int8" -> "i8"
      [] handler = "UInt8" -> "u8"
      [] handler = "Int16" -> "i16"
      [] handler = "UInt16" -> "u16"
      [] handler = "Int32" -> "i32"
      [] handler = "UInt32" -> "u32"
      [] handler = "Int64" -> "i64"
      [] handler = "UInt64" -> "u64"
      [] handler = "Float" -> "f32"
      [] handler = "Double" -> "f64"
      [] handler = "String" -> "String"
      [] handler = "Binary" -> "Vec<u8>"
      [] handler = "IpAddr" -> "IpAddr"
      [] handler = "FileTime" -> "FileTime"
      [] handler = "SystemTime" -> "SystemTime"
      [] handler = "ArrayInt16" -> "&[i16]"
      [] handler = "ArrayUInt16" -> "&[u16]"
      [] handler = "ArrayInt32" -> "&[i32]"
      [] handler = "ArrayUInt32" -> "&[u32]"
      [] handler = "ArrayInt64" -> "&[i64]"
      [] handler = "ArrayUInt64" -> "&[u64]"
      [] handler = "Null" -> "none"
      [] handler = "Pointer" -> "u64"
      [] handler = "ArrayPointer" -> "&[u64]"
      [] handler = "Guid" -> "GUID"

HandlerType(handler, pointer_size) ==
    CASE handler = "Bool" -> "bool"
      [] handler = "Int8" -> "i8"
      [] handler = "UInt8" -> "u8"
      [] handler = "Int16" -> "i16"
      [] handler = "UInt16" -> "u16"
      [] handler = "Int32" -> "i32"
      [] handler = "UInt32" -> "u32"
      [] handler = "Int64" -> "i64"
      [] handler = "UInt64" -> "u64"
      [] handler = "Float" -> "f32"
      [] handler = "Double" -> "f64"
      [] handler = "String" -> "String"
      [] handler = "Binary" -> "Vec<u8>"
      [] handler = "IpAddr" -> "IpAddr"
      [] handler = "FileTime" -> "FileTime"
      [] handler = "SystemTime" -> "SystemTime"
      [] handler = "ArrayInt16" -> "&[i16]"
      [] handler = "ArrayUInt16" -> "&[u16]"
      [] handler = "ArrayInt32" -> "&[i32]"
      [] handler = "ArrayUInt32" -> "&[u32]"
      [] handler = "ArrayInt64" -> "&[i64]"
      [] handler = "ArrayUInt64" -> "&[u64]"
      [] handler = "Null" -> "none"
      [] handler = "Pointer" -> IF pointer_size = 4 THEN "u32" ELSE "u64"
      [] handler = "ArrayPointer" -> IF pointer_size = 4 THEN "&[u32]" ELSE "&[u64]"
      [] handler = "Guid" -> "GUID"

ParserErrors == {"FieldNotFound", "TypeMismatch", "MalformedBuffer"}

\* what parser.try_parse::<T>(&prop.name) returns for the i-th property of the visit:
\* the record decides whether the accessor fails there, and how
ExtractOutcome(rec, i) ==
    IF rec.fail_at = i THEN [ok |-> FALSE, err |-> rec.fail_kind]
    ELSE [ok |-> TRUE, err |-> "-"]

SerOk(entry) == [ok |-> TRUE, emits |-> TRUE, entry |-> entry, err |-> NoError]
SerErr(kind) ==
    [ok |-> FALSE, emits |-> FALSE, entry |-> [name |-> "-", T |-> "-", field |-> 0],
     err |-> [kind |-> kind, name |-> "-", in_type |-> "-", out_type |-> "-", count |-> 0]]

\* prop_ser_type!: try_parse, `?` on its error, then serialize_entry(name, value)
prop_ser_type_SkipOnError(T, prop, i, rec) ==
    IF ExtractOutcome(rec, i).ok
    THEN SerOk([name |-> prop.name, T |-> T, field |-> i])
    ELSE [ok |-> TRUE, emits |-> FALSE, entry |-> [name |-> "-", T |-> "-", field |-> 0],
          err |-> NoError]

prop_ser_type(T, prop, i, rec) ==
    IF ExtractOutcome(rec, i).ok
    THEN SerOk([name |-> prop.name, T |-> T, field |-> i])
    ELSE SerErr(ExtractOutcome(rec, i).err)

\* PropHandler::ser
ser(handler, prop, i, rec) ==
    IF handler = "Null"
    THEN SerOk([name |-> prop.name, T |-> "none", field |-> i])
    ELSE prop_ser_type(HandlerType(handler, rec.pointer_size), prop, i, rec)

\* EventSer::serialize, counting loop: `if prop.get_parser().is_some() { len += 1 }`
CountsTowardLen_Every(prop) == TRUE

CountsTowardLen(prop) == get_parser(prop.info) # NoParser

\* EventSer::serialize, counting loop: `else if self.options.fail_unimplemented`
FailsOnUnimplemented_Never(opts) == FALSE

FailsOnUnimplemented(opts) == opts.fail_unimplemented

\* the serde custom error of an unimplemented property
NotImplementedError(prop) ==
    [kind |-> "not implemented", name |-> prop.name, in_type |-> prop.info.in_type,
     out_type |-> prop.info.out_type,
     count |-> IF prop.info.kind = "Array" THEN prop.info.count ELSE 0]

\* the counting loop from property i on, with `len` so far: the loop's early return, or
\* the final len
RECURSIVE CountLoop(_, _, _, _)
CountLoop(props, i, len, opts) ==
    IF i > Len(props) THEN [failed |-> FALSE, len |-> len, err |-> NoError]
    ELSE IF CountsTowardLen(props[i]) THEN CountLoop(props, i + 1, len + 1, opts)
    ELSE IF FailsOnUnimplemented(opts)
         THEN [failed |-> TRUE, len |-> len, err |-> NotImplementedError(props[i])]
    ELSE CountLoop(props, i + 1, len, opts)

\* line 256: `Err(e) if self.options.fail_unimplemented => return Err(e)`; the error of
\* try_properties is PropertyError::UnimplementedType, and the guard lets it through
\* to `_ => &[]` when the flag is off
AbortsOnParseError_Always(opts) == TRUE

AbortsOnParseError(opts) == opts.fail_unimplemented

\* lines 250-259: try_properties and the match on its result
VisitBegin ==
    /\ v_pc = "start"
    /\ parse_count[1] < MaxParses
    /\ LET r == CellResult(CellAfter(1))
       IN /\ cached_properties' = [cached_properties EXCEPT ![1] = CellAfter(1)]
          /\ parse_count' = [parse_count EXCEPT ![1] = CountAfter(1)]
          /\ IF ~r.ok /\ AbortsOnParseError(options)
             THEN /\ v_pc' = "err"
                  /\ v_err' = [kind |-> "UnimplementedType", name |-> r.err,
                               in_type |-> "-", out_type |-> "-", count |-> 0]
                  /\ v_props' = v_props
             ELSE /\ v_pc' = "count"
                  /\ v_props' = IF r.ok THEN r.val ELSE <<>>
                  /\ v_err' = v_err
    /\ UNCHANGED <<te_info, ret, ret_lenient, ret_strict, options, record, v_len, v_idx, v_map>>
    /\ UNCHANGED <<concVars, resVars, parserVars, recVars>>

\* lines 261-287: the counting loop
VisitCount ==
    /\ v_pc = "count"
    /\ LET c == CountLoop(v_props, 1, 0, options)
       IN /\ v_len' = c.len
          /\ v_pc' = IF c.failed THEN "err" ELSE "open"
          /\ v_err' = IF c.failed THEN c.err ELSE v_err
    /\ UNCHANGED <<schemaVars, options, record, v_props, v_idx, v_map>>
    /\ UNCHANGED <<concVars, resVars, parserVars, recVars>>

\* line 289: serializer.serialize_map(Some(len))
VisitOpenMap ==
    /\ v_pc = "open"
    /\ v_map' = [open |-> TRUE, declared |-> v_len, entries |-> <<>>, ended |-> FALSE]
    /\ v_idx' = 1
    /\ v_pc' = "emit"
    /\ UNCHANGED <<schemaVars, options, record, v_props, v_len, v_err>>
    /\ UNCHANGED <<concVars, resVars, parserVars, recVars>>

\* lines 290-294: one iteration of the emit loop
VisitEmit ==
    /\ v_pc = "emit"
    /\ v_idx <= Len(v_props)
    /\ LET prop == v_props[v_idx]
           r == ser(get_parser(prop.info), prop, v_idx, record)
       IN IF get_parser(prop.info) = NoParser
          THEN /\ v_idx' = v_idx + 1
               /\ UNCHANGED <<v_pc, v_map, v_err>>
          ELSE IF ~r.ok
          THEN /\ v_pc' = "err"
               /\ v_err' = r.err
               /\ UNCHANGED <<v_idx, v_map>>
          ELSE /\ v_idx' = v_idx + 1
               /\ v_map' = IF r.emits
                           THEN [v_map EXCEPT !.entries = Append(@, r.entry)]
                           ELSE v_map
               /\ UNCHANGED <<v_pc, v_err>>
    /\ UNCHANGED <<schemaVars, options, record, v_props, v_len>>
    /\ UNCHANGED <<concVars, resVars, parserVars, recVars>>

\* line 295: state.end()
VisitEnd ==
    /\ v_pc = "emit"
    /\ v_idx > Len(v_props)
    /\ v_map' = [v_map EXCEPT !.ended = TRUE]
    /\ v_pc' = "done"
    /\ UNCHANGED <<schemaVars, options, record, v_props, v_len, v_idx, v_err>>
    /\ UNCHANGED <<concVars, resVars, parserVars, recVars>>

Counted  == Prop("Counted", "Value", "InTypeCountedString", "OutTypeString", 0)
Names    == Prop("Names", "Array", "InTypeUnicodeString", "OutTypeString", 2)
Ptr      == Prop("Ptr", "Value", "InTypePointer", "OutTypeNull", 0)
Nothing  == Prop("Nothing", "Value", "InTypeNull", "OutTypeNull", 0)
PtrArray == Prop("PtrArray", "Array", "InTypePointer", "OutTypeNull", 2)

VisitItems ==
    {OkItem(QueryName), OkItem(Status), OkItem(Counted), OkItem(Names), OkItem(Ptr),
     OkItem(Nothing), OkItem(PtrArray), ErrItem("Opaque")}

VisitLists == SeqsUpTo(VisitItems, MaxProps)

InitVisit ==
    /\ \E items \in VisitLists :
          /\ te_info = [s \in Schemas |->
                          IF s = 1
                          THEN TeInfo(1, "g1", 0, "Microsoft-Windows-DNS-Client", items, items)
                          ELSE OtherTeInfo]
          /\ \E ptr \in {4, 8}, at \in 0..Len(items), kind \in ParserErrors :
                /\ (at = 0 => kind = "FieldNotFound")
                /\ record = [pointer_size |-> ptr, readable |-> Len(items),
                             fail_at |-> at, fail_kind |-> kind]
    /\ \E f \in BOOLEAN : options = [DefaultOptions EXCEPT !.fail_unimplemented = f]
    /\ v_pc = "start" /\ v_props = <<>> /\ v_len = 0 /\ v_idx = 0
    /\ v_map = NoMap /\ v_err = NoError
    /\ SchemaFresh
    /\ ConcIdle /\ ResIdle /\ ParserIdle /\ RecIdle

NextVisit ==
    \/ VisitBegin
    \/ VisitCount
    \/ VisitOpenMap
    \/ VisitEmit
    \/ VisitEnd

SpecVisit == InitVisit /\ [][NextVisit]_vars

(***************************************************************************)
(* The whole record: EventSerializer::serialize (src/src/ser.rs 89-124)    *)
(* and the Schema, Header and Descriptor blocks it emits                   *)
(***************************************************************************)
MaxRecProps == 2

\* char::is_whitespace, the test str::trim applies: the Unicode White_Space
\* characters. A name is held as a sequence of characters, a character as a string of
\* length one; the characters a string literal cannot hold are written by code point.
WhiteSpace ==
    {"\t", "\n", "U+000B", "\f", "\r", " ", "U+0085", "U+00A0", "U+1680",
     "U+2000", "U+2001", "U+2002", "U+2003", "U+2004", "U+2005", "U+2006", "U+2007",
     "U+2008", "U+2009", "U+200A", "U+2028", "U+2029", "U+202F", "U+205F", "U+3000"}

\* str::trim_start, str::trim_end and str::trim
RECURSIVE TrimStart(_)
TrimStart(s) == IF s # <<>> /\ Head(s) \in WhiteSpace THEN TrimStart(Tail(s)) ELSE s

RECURSIVE TrimEnd(_)
TrimEnd(s) ==
    IF s # <<>> /\ s[Len(s)] \in WhiteSpace
    THEN TrimEnd(SubSeq(s, 1, Len(s) - 1))
    ELSE s

Trim(s) == TrimEnd(TrimStart(s))

\* SerializeStruct::serialize_field(key, value) and SerializeStruct::skip_field(key)
Field(key, value) == [key |-> key, kind |-> "field", value |-> value]
Skip(key) == [key |-> key, kind |-> "skip", value |-> "-"]

Entry(key, value) == [key |-> key, value |-> value]

\* SchemaSer::serialize
SchemaSer(te) ==
    [name |-> "Schema", declared |-> 3,
     fields |-> << Entry("Provider", Trim(provider_name(te))),
                   Entry("Opcode", Trim(opcode_name(te))),
                   Entry("Task", Trim(task_name(te))) >>]

\* DescriptorSer::serialize
DescriptorSer(d) ==
    [name |-> "Descriptor", declared |-> 7,
     fields |-> << Entry("Id", d.Id),
                   Entry("Version", d.Version),
                   Entry("Channel", d.Channel),
                   Entry("Level", d.Level),
                   Entry("Opcode", d.Opcode),
                   Entry("Task", d.Task),
                   Entry("Keyword", d.Keyword) >>]

\* FileTime::from_quad and GUIDExt wrap the raw member in the type that serializes it
FileTime_from_quad(q) == [filetime |-> q]
GUIDExt(g) == [guid |-> g]

\* HeaderSer::serialize; line 183 reads self.header.Flags under the key "EventProperty"
HeaderSer(h) ==
    [name |-> "Header", declared |-> 10,
     fields |-> << Entry("Size", h.Size),
                   Entry("HeaderType", h.HeaderType),
                   Entry("Flags", h.Flags),
                   Entry("EventProperty", h.Flags),
                   Entry("ThreadId", h.ThreadId),
                   Entry("ProcessId", h.ProcessId),
                   Entry("TimeStamp", FileTime_from_quad(h.TimeStamp)),
                   Entry("ProviderId", GUIDExt(h.ProviderId)),
                   Entry("ActivityId", GUIDExt(h.ActivityId)),
                   Entry("Descriptor", DescriptorSer(h.EventDescriptor)) >>]

\* lines 96, 103: the tests that choose serialize_field over skip_field
IncludesSchema(opts) == opts.include_schema

IncludesHeader_AsSchema(opts) == opts.include_schema

IncludesHeader(opts) == opts.include_header

\* line 110: the test that returns the error for extended data
ExtendedFails_OnInclude(opts) == opts.include_extended_data

ExtendedFails(opts) == opts.include_extended_data /\ opts.fail_unimplemented

ExtendedError ==
    [kind |-> "not implemented for extended data", name |-> "-", in_type |-> "-",
     out_type |-> "-", count |-> 0]

\* line 94: serializer.serialize_struct("Record", 4)
RecBegin ==
    /\ rec_pc = "start"
    /\ rec_out' = [name |-> "Record", declared |-> 4, log |-> <<>>, ended |-> FALSE]
    /\ rec_pc' = "schema"
    /\ UNCHANGED <<header, rec_err>>
    /\ UNCHANGED <<schemaVars, concVars, resVars, parserVars, visitVars>>

\* lines 96-101
RecSchema ==
    /\ rec_pc = "schema"
    /\ rec_out' = [rec_out EXCEPT !.log =
                     Append(@, IF IncludesSchema(options)
                               THEN Field("Schema", SchemaSer(te_info[1]))
                               ELSE Skip("Schema"))]
    /\ rec_pc' = "header"
    /\ UNCHANGED <<header, rec_err>>
    /\ UNCHANGED <<schemaVars, concVars, resVars, parserVars, visitVars>>

\* lines 103-108
RecHeader ==
    /\ rec_pc = "header"
    /\ rec_out' = [rec_out EXCEPT !.log =
                     Append(@, IF IncludesHeader(options)
                               THEN Field("Header", HeaderSer(header))
                               ELSE Skip("Header"))]
    /\ rec_pc' = "extended"
    /\ UNCHANGED <<header, rec_err>>
    /\ UNCHANGED <<schemaVars, concVars, resVars, parserVars, visitVars>>

\* lines 110-117
RecExtended ==
    /\ rec_pc = "extended"
    /\ IF ExtendedFails(options)
       THEN /\ rec_pc' = "err"
            /\ rec_err' = ExtendedError
            /\ rec_out' = rec_out
       ELSE /\ rec_pc' = "event"
            /\ rec_out' = [rec_out EXCEPT !.log = Append(@, Skip("Extended"))]
            /\ rec_err' = rec_err
    /\ UNCHANGED header
    /\ UNCHANGED <<schemaVars, concVars, resVars, parserVars, visitVars>>

\* lines 119-120: EventSer::new and the call serialize_field("Event", &event) makes
\* into EventSer::serialize
RecEvent ==
    /\ rec_pc = "event"
    /\ v_pc = "idle"
    /\ v_pc' = "start"
    /\ UNCHANGED <<options, record, v_props, v_len, v_idx, v_map, v_err>>
    /\ UNCHANGED <<schemaVars, concVars, resVars, parserVars, recVars>>

\* line 120: EventSer::serialize returned; `?` on its error
RecEventReturn ==
    /\ rec_pc = "event"
    /\ v_pc \in {"done", "err"}
    /\ IF v_pc = "done"
       THEN /\ rec_out' = [rec_out EXCEPT !.log = Append(@, Field("Event", v_map))]
            /\ rec_pc' = "end"
            /\ rec_err' = rec_err
       ELSE /\ rec_pc' = "err"
            /\ rec_err' = v_err
            /\ rec_out' = rec_out
    /\ UNCHANGED header
    /\ UNCHANGED <<schemaVars, concVars, resVars, parserVars, visitVars>>

\* line 122: state.end()
RecEnd ==
    /\ rec_pc = "end"
    /\ rec_out' = [rec_out EXCEPT !.ended = TRUE]
    /\ rec_pc' = "done"
    /\ UNCHANGED <<header, rec_err>>
    /\ UNCHANGED <<schemaVars, concVars, resVars, parserVars, visitVars>>

RecItems == {OkItem(QueryName), OkItem(Names), ErrItem("Opaque")}

RecLists == SeqsUpTo(RecItems, MaxRecProps)

AllOptions ==
    [include_schema : BOOLEAN, include_header : BOOLEAN,
     include_extended_data : BOOLEAN, fail_unimplemented : BOOLEAN]

OpcodeNames == { <<"I", "n", "f", "o">>, <<"\t", " ", "I", "n", "f", "o", " ", "\r", "\n">> }

Headers ==
    { [Size |-> 96, HeaderType |-> 0, Flags |-> fl, EventProperty |-> ep,
       ThreadId |-> 1204, ProcessId |-> 880, TimeStamp |-> 133000000,
       ProviderId |-> "g1", ActivityId |-> "a1",
       EventDescriptor |-> [Id |-> 3008, Version |-> 0, Channel |-> 16, Level |-> 4,
                            Opcode |-> 0, Task |-> 0, Keyword |-> 9]] :
      fl \in {64, 576}, ep \in {0, 1, 64} }

InitRecord ==
    /\ \E items \in RecLists, op \in OpcodeNames :
          /\ te_info = [s \in Schemas |->
                          IF s = 1
                          THEN [TeInfo(1, "g1", 0, <<"D", "N", "S", " ">>, items, items)
                                  EXCEPT !.opcode_name = op,
                                         !.task_name = <<"U+00A0", "t", " ", "k", "U+3000">>]
                          ELSE OtherTeInfo]
          /\ \E at \in 0..Len(items) :
                record = [pointer_size |-> 8, readable |-> Len(items),
                          fail_at |-> at, fail_kind |-> "FieldNotFound"]
    /\ options \in AllOptions
    /\ header \in Headers
    /\ rec_pc = "start" /\ rec_out = NoStruct /\ rec_err = NoError
    /\ v_pc = "idle" /\ v_props = <<>> /\ v_len = 0 /\ v_idx = 0
    /\ v_map = NoMap /\ v_err = NoError
    /\ SchemaFresh
    /\ ConcIdle /\ ResIdle /\ ParserIdle

NextRecord ==
    \/ RecBegin
    \/ RecSchema
    \/ RecHeader
    \/ RecExtended
    \/ RecEvent
    \/ VisitBegin
    \/ VisitCount
    \/ VisitOpenMap
    \/ VisitEmit
    \/ VisitEnd
    \/ RecEventReturn
    \/ RecEnd

SpecRecord == InitRecord /\ [][NextRecord]_vars

(***************************************************************************)
(* Field accessor: Parser::try_parse (crate::parser)                       *)
(***************************************************************************)
\* index of the first property called `name`, 0 when there is none
FirstMatch(props, name) ==
    IF \E i \in 1..Len(props) : props[i].name = name
    THEN CHOOSE i \in 1..Len(props) :
            /\ props[i].name = name
            /\ \A j \in 1..(i - 1) : props[j].name # name
    ELSE 0

ParseFail(e, T) == [called |-> TRUE, ok |-> FALSE, err |-> e, field |-> 0, T |-> T]

\* extract<T>(name): locate, resolve the strategy, compare T with its representation,
\* read the bytes
TryParse(props, rec, name, T) ==
    LET f == FirstMatch(props, name)
    IN IF f = 0 THEN ParseFail("FieldNotFound", T)
       ELSE IF get_parser(props[f].info) = NoParser THEN ParseFail("UnimplementedType", T)
       ELSE IF HandlerType(get_parser(props[f].info), rec.pointer_size) # T
            THEN ParseFail("TypeMismatch", T)
       ELSE IF f > rec.readable THEN ParseFail("MalformedBuffer", T)
       ELSE [called |-> TRUE, ok |-> TRUE, err |-> "-", field |-> f, T |-> T]

Address == Prop("Address", "Value", "InTypeUInt32", "OutTypeIpv4", 0)

ParserItems ==
    {OkItem(QueryName), OkItem(Status), OkItem(Counted), OkItem(Ptr), OkItem(Address),
     ErrItem("Opaque")}

RequestNames == {"QueryName", "Status", "Counted", "Ptr", "Address", "NoSuchProperty"}
RequestTypes == {"String", "i32", "u32", "u64", "IpAddr"}

\* parser.try_parse::<T>(name) on a Parser created from the record and schema 1
ParserTryParse(name, T) ==
    /\ parse_count[1] < MaxParses
    /\ cached_properties' = [cached_properties EXCEPT ![1] = CellAfter(1)]
    /\ parse_count' = [parse_count EXCEPT ![1] = CountAfter(1)]
    /\ p_req' = [name |-> name, T |-> T]
    /\ p_res' = TryParse(LenientOf(CellResult(CellAfter(1))).val, record, name, T)
    /\ UNCHANGED <<te_info, ret, ret_lenient, ret_strict>>
    /\ UNCHANGED <<concVars, resVars, visitVars, recVars>>

InitParser ==
    /\ \E items \in SeqsUpTo(ParserItems, MaxFields) :
          /\ te_info = [s \in Schemas |->
                          IF s = 1
                          THEN TeInfo(1, "g1", 0, "Microsoft-Windows-DNS-Client", items, items)
                          ELSE OtherTeInfo]
          /\ \E ptr \in {4, 8}, n \in 0..Len(items) :
                record = [pointer_size |-> ptr, readable |-> n,
                          fail_at |-> 0, fail_kind |-> "-"]
    /\ p_req = [name |-> "-", T |-> "-"]
    /\ p_res = NoParse
    /\ SchemaFresh
    /\ ConcIdle /\ ResIdle /\ VisitIdle /\ RecIdle

NextParser ==
    \E name \in RequestNames, T \in RequestTypes : ParserTryParse(name, T)

SpecParser == InitParser /\ [][NextParser]_vars

(***************************************************************************)
(* Claims about the Schema accessors (SpecSchema)                          *)
(***************************************************************************)
\* the outcome of the one parse a Schema may run: the first traversal of its raw list
SingleParse(s) == CollectProperties(te_info[s].properties)
Reparse(s) == CollectProperties(te_info[s].properties_again)

\* C1: over any sequence of properties() / try_properties() calls on one Schema the
\* closure that parses the raw list runs at most once, and every call returns the
\* outcome of that one parse (the list, or the failure), also when a second parse of
\* the raw list would end differently.
C1_ParseOnceMemoized ==
    \A s \in Schemas :
        /\ parse_count[s] <= 1
        /\ cached_properties[s].init => CellResult(cached_properties[s]) = SingleParse(s)
        /\ ret_strict[s].called =>
              /\ parse_count[s] = 1
              /\ [ok |-> ret_strict[s].ok, val |-> ret_strict[s].val,
                  err |-> ret_strict[s].err] = SingleParse(s)
        /\ ret_lenient[s].called =>
              /\ parse_count[s] = 1
              /\ ret_lenient[s].val = SingleParse(s).val
              /\ ret_lenient[s].logged = ~SingleParse(s).ok

\* both accessors were called on schema 1, whose raw list parses the first time and
\* would fail if it were parsed again
C1_Witness ==
    /\ ret_strict[1].called /\ ret_lenient[1].called
    /\ ret.op = "properties" /\ ret.schema = 1
    /\ SingleParse(1).ok /\ Len(SingleParse(1).val) > 0
    /\ ~Reparse(1).ok
    /\ ret.res.val = SingleParse(1).val

\* C3 as stated: properties() returns the empty slice exactly when try_properties()
\* returns Err, and otherwise the list try_properties() returns.
C3_EmptyExactlyOnFailure ==
    \A s \in Schemas :
        (ret_lenient[s].called /\ ret_strict[s].called) =>
            /\ (ret_lenient[s].val = <<>>) <=> ~ret_strict[s].ok
            /\ ret_strict[s].ok => ret_lenient[s].val = ret_strict[s].val

\* C3 amended: properties() never fails; it returns the empty slice whenever
\* try_properties() returns Err, the list of try_properties() whenever that returns Ok,
\* so an empty slice means a failure or a schema whose parsed list is empty.
C3_LenientMatchesStrict ==
    \A s \in Schemas :
        /\ ret_lenient[s].called => ret_lenient[s].ok
        /\ (ret_lenient[s].called /\ ret_strict[s].called) =>
              /\ ~ret_strict[s].ok => (ret_lenient[s].val = <<>> /\ ret_lenient[s].logged)
              /\ ret_strict[s].ok =>
                    (ret_lenient[s].val = ret_strict[s].val /\ ~ret_lenient[s].logged)
              /\ (ret_lenient[s].val = <<>>) <=>
                    (~ret_strict[s].ok \/ ret_strict[s].val = <<>>)

\* both accessors were called on a schema whose parse failed
C3_Witness ==
    /\ ret_lenient[1].called /\ ret_strict[1].called
    /\ ~ret_strict[1].ok /\ ret_strict[1].err = "Opaque"
    /\ ret_lenient[1].val = <<>>

\* C4: ==, provider_name, task_name, opcode_name and decoding_source never run the
\* parse: a Schema on which no accessor was called still has an empty cell, and what
\* they return is decided by te_info alone, whatever the cell holds.
C4_MetadataLeavesCacheAlone ==
    /\ \A s \in Schemas :
          (~ret_lenient[s].called /\ ~ret_strict[s].called) =>
              (cached_properties[s] = EmptyCell /\ parse_count[s] = 0)
    /\ ret.op = "eq" =>
          ret.res = (<<te_info[ret.schema].event_id, te_info[ret.schema].provider_guid,
                       te_info[ret.schema].event_version>>
                     = <<te_info[ret.other].event_id, te_info[ret.other].provider_guid,
                         te_info[ret.other].event_version>>)
    /\ ret.op = "provider_name" => ret.res = te_info[ret.schema].provider_name
    /\ ret.op = "task_name" => ret.res = te_info[ret.schema].task_name
    /\ ret.op = "opcode_name" => ret.res = te_info[ret.schema].opcode_name
    /\ ret.op = "decoding_source" => ret.res = te_info[ret.schema].decoding_source

\* two distinct schemas with the same identity and different raw lists compared equal,
\* one with a parsed cell and one never parsed
C4_Witness ==
    /\ ret.op = "eq" /\ ret.schema = 1 /\ ret.other = 2 /\ ret.res = TRUE
    /\ te_info[1].properties # te_info[2].properties
    /\ cached_properties[1].init
    /\ ~cached_properties[2].init

(***************************************************************************)
(* Claims about racing threads (SpecConc)                                  *)
(***************************************************************************)
\* C2: when threads race on the accessors of one unparsed Schema, in every
\* interleaving the parse closure runs exactly once, the cell goes from empty to one
\* value that is never replaced, and every thread returns that value.
C2_RaceParsesOnce ==
    /\ parse_count[1] <= 1
    /\ cached_properties[1].init <=> once_state = "COMPLETE"
    /\ cached_properties[1].init <=> parse_count[1] = 1
    /\ cached_properties[1].init => CellResult(cached_properties[1]) = SingleParse(1)
    /\ \A t \in Threads :
          /\ pc[t] = "done" =>
                /\ parse_count[1] = 1
                /\ tret[t] = AccessorResult(acc[t], FullCell(SingleParse(1)))
          /\ (pc[t] = "initialize" /\ once_state = "RUNNING") =>
                \E u \in Threads : pc[u] = "running"

\* every thread returned, through different accessors, on a Schema whose raw list
\* would parse differently a second time
C2_Witness ==
    /\ \A t \in Threads : pc[t] = "done"
    /\ acc[1] # acc[2]
    /\ SingleParse(1) # Reparse(1)
    /\ tret[1].val = tret[2].val

(***************************************************************************)
(* Claims about the field accessor (SpecParser)                            *)
(***************************************************************************)
\* the schema's field list as the lenient accessor gives it
FieldList == LenientOf(SingleParse(1)).val

\* C5: try_parse::<T>(name) fails with FieldNotFound when no field has that name, and
\* with TypeMismatch when the first field of that name has a strategy whose
\* representation is not T (a text field asked as a 32-bit integer, a field refined to
\* an IP address asked as its integer in_type); it returns a value only for a name
\* that exists and a T that matches.
C5_NotFoundAndTypeMismatch ==
    p_res.called =>
        LET M == {i \in 1..Len(FieldList) : FieldList[i].name = p_req.name}
        IN /\ M = {} => (~p_res.ok /\ p_res.err = "FieldNotFound")
           /\ p_res.ok => M # {}
           /\ M # {} =>
                 LET f == CHOOSE i \in M : \A j \in M : i <= j
                     h == get_parser(FieldList[f].info)
                 IN /\ (h # NoParser /\ p_req.T # HandlerType(h, record.pointer_size)) =>
                          (~p_res.ok /\ p_res.err = "TypeMismatch")
                    /\ p_res.ok =>
                          /\ h # NoParser
                          /\ p_req.T = HandlerType(h, record.pointer_size)
                          /\ p_res.field = f
                    /\ (p_req.name = "QueryName" /\ p_req.T \in {"i32", "u32"}) =>
                          (~p_res.ok /\ p_res.err = "TypeMismatch")
                    /\ (p_req.name = "Address" /\ p_req.T # "IpAddr") =>
                          (~p_res.ok /\ p_res.err = "TypeMismatch")

\* QueryName, a text field, was asked as a 32-bit integer and refused
C5_Witness ==
    /\ p_res.called /\ p_req.name = "QueryName" /\ p_req.T = "u32"
    /\ \E i \in 1..Len(FieldList) : FieldList[i] = QueryName
    /\ ~p_res.ok /\ p_res.err = "TypeMismatch"

(***************************************************************************)
(* Claims about the event-fields visit (SpecVisit)                         *)
(***************************************************************************)
ResolvableIdx(L) == {i \in 1..Len(L) : get_parser(L[i].info) # NoParser}
UnresolvableIdx(L) == (1..Len(L)) \ ResolvableIdx(L)
\* the properties whose value the visit asks the parser for
ExtractedIdx(L) == {i \in ResolvableIdx(L) : get_parser(L[i].info) # "Null"}
EmittedIdx == {v_map.entries[k].field : k \in 1..Len(v_map.entries)}

\* C8: with fail_unimplemented = false and no failing extraction, the map is opened
\* before any entry, with a length equal to the number of properties that have a
\* strategy; exactly those properties are emitted, once each and in declared order;
\* the others are left out and the visit succeeds.
C8_DeclaredLenAndEntries ==
    (~options.fail_unimplemented /\ record.fail_at \notin ExtractedIdx(FieldList)) =>
        /\ v_pc # "err"
        /\ v_pc \in {"start", "count", "open"} => (~v_map.open /\ v_map.entries = <<>>)
        /\ v_pc \in {"emit", "done"} =>
              /\ v_map.open
              /\ v_map.declared = Cardinality(ResolvableIdx(FieldList))
              /\ EmittedIdx = {i \in ResolvableIdx(FieldList) : i < v_idx}
              /\ \A k \in 1..Len(v_map.entries) :
                    /\ v_map.entries[k].name = FieldList[v_map.entries[k].field].name
                    /\ \A m \in 1..(k - 1) :
                          v_map.entries[m].field < v_map.entries[k].field
        /\ v_pc = "done" =>
              /\ v_map.ended
              /\ Len(v_map.entries) = v_map.declared
              /\ EmittedIdx = ResolvableIdx(FieldList)

\* a finished visit that emitted some properties and left out one without a strategy
C8_Witness ==
    /\ v_pc = "done" /\ ~options.fail_unimplemented
    /\ UnresolvableIdx(FieldList) # {}
    /\ Len(v_map.entries) >= 1
    /\ v_map.declared = Len(v_map.entries)
    /\ v_map.declared < Len(FieldList)

\* C9: with fail_unimplemented = true over a parsed list that holds a property without
\* a strategy, the visit fails with an error naming the first such property in declared
\* order and its in_type / out_type, before the map is opened: no entry is emitted,
\* not even for properties with a strategy declared earlier.
C9_FailsBeforeMapOpens ==
    (options.fail_unimplemented /\ SingleParse(1).ok /\ UnresolvableIdx(FieldList) # {}) =>
        /\ v_pc \in {"start", "count", "err"}
        /\ ~v_map.open
        /\ v_map.entries = <<>>
        /\ v_pc = "err" =>
              LET u == CHOOSE i \in UnresolvableIdx(FieldList) :
                           \A j \in UnresolvableIdx(FieldList) : i <= j
              IN /\ v_err.kind = "not implemented"
                 /\ v_err.name = FieldList[u].name
                 /\ v_err.in_type = FieldList[u].info.in_type
                 /\ v_err.out_type = FieldList[u].info.out_type

\* the visit failed on a property without a strategy that follows one with a strategy
C9_Witness ==
    /\ v_pc = "err" /\ options.fail_unimplemented
    /\ v_err.kind = "not implemented"
    /\ Len(FieldList) >= 2
    /\ 1 \in ResolvableIdx(FieldList)
    /\ v_err.name = FieldList[2].name

\* C10: for both values of fail_unimplemented, an error of the parser on a property
\* that has a strategy ends the visit with that error: the property is not skipped, no
\* entry is emitted for it or for a later property, and the visit never succeeds.
C10_ExtractionErrorAborts ==
    /\ v_pc \in {"emit", "done"} =>
          \A i \in ExtractedIdx(v_props) : i < v_idx => ExtractOutcome(record, i).ok
    /\ record.fail_at \in ExtractedIdx(v_props) =>
          /\ v_pc # "done"
          /\ \A k \in 1..Len(v_map.entries) : v_map.entries[k].field < record.fail_at
          /\ v_idx <= record.fail_at
    /\ (v_pc = "err" /\ v_map.open) =>
          /\ record.fail_at \in ExtractedIdx(v_props)
          /\ v_idx = record.fail_at
          /\ v_err.kind = record.fail_kind
          /\ ~v_map.ended

\* the parser reported a malformed buffer on the first property; a later property with
\* a strategy was not emitted although unimplemented properties are skipped
C10_Witness ==
    /\ v_pc = "err" /\ v_map.open /\ ~options.fail_unimplemented
    /\ v_err.kind = "MalformedBuffer"
    /\ record.fail_at = 1
    /\ Len(v_props) >= 2 /\ 2 \in ResolvableIdx(v_props)
    /\ v_map.entries = <<>>

\* C11 as stated: the visit recovers only from a property without a strategy, and
\* only when fail_unimplemented is false: a visit that succeeds ran over a field list
\* that parsed, met no parser error, and met a property without a strategy only with
\* the flag off. A Schema whose parse failed never yields a successful visit.
C11_ParseFailureAlwaysAborts ==
    v_pc = "done" =>
        /\ SingleParse(1).ok
        /\ record.fail_at \notin ExtractedIdx(v_props)
        /\ UnresolvableIdx(v_props) # {} => ~options.fail_unimplemented

\* C11 amended: what the visit recovers from is an unimplemented type, in a property
\* without a strategy or in the field list's parse, and only when fail_unimplemented
\* is false. A parse failure with the flag on aborts before the map opens; with the
\* flag off the visit goes on over no property at all and succeeds with an empty
\* event-fields block. A parser error always aborts.
C11_UnimplementedRecoverableWhenLenient ==
    /\ v_pc = "done" =>
          /\ record.fail_at \notin ExtractedIdx(v_props)
          /\ (~SingleParse(1).ok \/ UnresolvableIdx(v_props) # {})
                => ~options.fail_unimplemented
    /\ (v_pc # "start" /\ ~SingleParse(1).ok) =>
          IF options.fail_unimplemented
          THEN /\ v_pc = "err"
               /\ v_err.kind = "UnimplementedType"
               /\ ~v_map.open
          ELSE /\ v_pc # "err"
               /\ v_props = <<>>
               /\ v_map.declared = 0
               /\ v_map.entries = <<>>

\* a finished visit over a field list whose parse failed after a resolvable property
C11_Witness ==
    /\ v_pc = "done"
    /\ ~SingleParse(1).ok
    /\ Len(te_info[1].properties) >= 2
    /\ ~te_info[1].properties[1].is_err
    /\ CountsTowardLen(te_info[1].properties[1].prop)
    /\ v_map.ended
    /\ v_map.entries = <<>>

\* C12: an entry emitted for a pointer field carries the width the record states: a
\* scalar pointer is read as u32 when the record's pointer size is 4 and as u64
\* otherwise, an array of pointers as a slice of u32 or of u64 by the same test; the
\* width follows the record alone.
C12_PointerWidthFromRecord ==
    \A k \in 1..Len(v_map.entries) :
        LET e == v_map.entries[k]
            h == get_parser(v_props[e.field].info)
        IN /\ h = "Pointer" =>
                 e.T = (IF record.pointer_size = 4 THEN "u32" ELSE "u64")
           /\ h = "ArrayPointer" =>
                 e.T = (IF record.pointer_size = 4 THEN "&[u32]" ELSE "&[u64]")

\* a finished visit of a record of a 32-bit process that emitted a pointer and an
\* array of pointers
C12_Witness ==
    /\ v_pc = "done"
    /\ record.pointer_size = 4
    /\ \E k \in 1..Len(v_map.entries) :
          /\ get_parser(v_props[v_map.entries[k].field].info) = "Pointer"
          /\ v_map.entries[k].T = "u32"
    /\ \E k \in 1..Len(v_map.entries) :
          /\ get_parser(v_props[v_map.entries[k].field].info) = "ArrayPointer"
          /\ v_map.entries[k].T = "&[u32]"

(***************************************************************************)
(* Claims about the whole record (SpecRecord)                               *)
(***************************************************************************)
RecOrder == <<"Schema", "Header", "Extended", "Event">>

\* what the claims expect of the k-th top-level entry under the options
ExpectedKind(k, opts) ==
    CASE k = 1 -> IF opts.include_schema THEN "field" ELSE "skip"
      [] k = 2 -> IF opts.include_header THEN "field" ELSE "skip"
      [] k = 3 -> "skip"
      [] k = 4 -> "field"

\* C13: the top-level entries are handled in the order Schema, Header, Extended, Event,
\* each once: at every point of the serialization what has been handled is a prefix of
\* that order, the schema block is emitted exactly when include_schema is set and
\* skipped otherwise, the header block likewise under include_header, and a
\* serialization that succeeds has handled all four, the last being the emitted
\* event-fields block, inside a struct declared with four entries and ended.
C13_TopLevelOrder ==
    /\ Len(rec_out.log) <= 4
    /\ \A k \in 1..Len(rec_out.log) :
          /\ rec_out.log[k].key = RecOrder[k]
          /\ rec_out.log[k].kind = ExpectedKind(k, options)
          /\ (k = 1 /\ options.include_schema) => rec_out.log[k].value.name = "Schema"
          /\ (k = 2 /\ options.include_header) => rec_out.log[k].value.name = "Header"
    /\ rec_pc = "done" =>
          /\ Len(rec_out.log) = 4
          /\ rec_out.declared = 4
          /\ rec_out.ended
          /\ rec_out.log[4].value = v_map
          /\ v_map.ended

\* a successful serialization without the schema block, with the header block, and
\* with an event field emitted
C13_Witness ==
    /\ rec_pc = "done"
    /\ ~options.include_schema
    /\ options.include_header
    /\ Len(rec_out.log) = 4
    /\ rec_out.log[1].kind = "skip"
    /\ rec_out.log[2].kind = "field"
    /\ Len(rec_out.log[4].value.entries) >= 1

\* C14: extended data is never emitted. With include_extended_data and
\* fail_unimplemented both set the serialization fails with the 'not implemented'
\* error once Schema and Header have been handled, before the event's fields are
\* looked at; under every other combination Extended is skipped, and a failure, if
\* any, is the failure of the event-fields visit.
C14_ExtendedNeverPresent ==
    /\ \A k \in 1..Len(rec_out.log) :
          rec_out.log[k].key = "Extended" => rec_out.log[k].kind = "skip"
    /\ IF options.include_extended_data /\ options.fail_unimplemented
       THEN /\ rec_pc \notin {"event", "end", "done"}
            /\ v_pc = "idle"
            /\ rec_pc = "err" =>
                  /\ rec_err = ExtendedError
                  /\ Len(rec_out.log) = 2
                  /\ rec_out.log[1].key = "Schema"
                  /\ rec_out.log[2].key = "Header"
       ELSE /\ rec_err.kind # ExtendedError.kind
            /\ rec_pc \in {"event", "end", "done"} =>
                  /\ Len(rec_out.log) >= 3
                  /\ rec_out.log[3] = Skip("Extended")
            /\ rec_pc = "err" => (v_pc = "err" /\ rec_err = v_err)

\* the failure on extended data, over an event that has fields and with both blocks
\* asked for
C14_Witness ==
    /\ rec_pc = "err"
    /\ rec_err = ExtendedError
    /\ options.include_extended_data /\ options.fail_unimplemented
    /\ options.include_schema /\ options.include_header
    /\ Len(rec_out.log) = 2
    /\ Len(te_info[1].properties) >= 1
    /\ v_pc = "idle"

HeaderKeys ==
    <<"Size", "HeaderType", "Flags", "EventProperty", "ThreadId", "ProcessId",
      "TimeStamp", "ProviderId", "ActivityId", "Descriptor">>

DescriptorKeys == <<"Id", "Version", "Channel", "Level", "Opcode", "Task", "Keyword">>

\* the value an entry of the header block carries when it is the member it is named
\* after
OwnMember(h, key) ==
    CASE key = "TimeStamp" -> FileTime_from_quad(h[key])
      [] key \in {"ProviderId", "ActivityId"} -> GUIDExt(h[key])
      [] key = "Descriptor" ->
            [name |-> "Descriptor", declared |-> Len(DescriptorKeys),
             fields |-> [j \in 1..Len(DescriptorKeys) |->
                           Entry(DescriptorKeys[j], h.EventDescriptor[DescriptorKeys[j]])]]
      [] OTHER -> h[key]

\* C15: an emitted header block holds as many entries as it declares, ten, named
\* Size, HeaderType, Flags, EventProperty, ThreadId, ProcessId, TimeStamp,
\* ProviderId, ActivityId, Descriptor, and every entry carries the value of the
\* header member it is named after; the Descriptor entry holds the seven members
\* of the descriptor, each with its own value.
C15_HeaderEntriesCarryOwnMember ==
    \A k \in 1..Len(rec_out.log) :
        (rec_out.log[k].key = "Header" /\ rec_out.log[k].kind = "field") =>
            LET b == rec_out.log[k].value
            IN /\ b.declared = Len(b.fields)
               /\ Len(b.fields) = Len(HeaderKeys)
               /\ \A j \in 1..Len(b.fields) :
                     /\ b.fields[j].key = HeaderKeys[j]
                     /\ b.fields[j].value = OwnMember(header, HeaderKeys[j])

(***************************************************************************)
(* Claims about the type resolver (SpecResolver)                           *)
(***************************************************************************)
IpOutTypes == {"OutTypeIpv4", "OutTypeIpv6"}

\* C6: a descriptor whose out_type is IPv4 or IPv6 resolves to the IP-address
\* strategy, for every in_type, scalar or array.
C6_IpOutTypeWins ==
    (r_out # "unresolved" /\ r_info.out_type \in IpOutTypes) => r_out = "IpAddr"

\* C7 as stated: an array field has a strategy exactly when its in_type is a signed or
\* unsigned integer of 8, 16, 32 or 64 bits or a pointer.
C7_ArrayOfAnyFixedWidthInteger ==
    (r_out # "unresolved" /\ r_info.kind = "Array") =>
        ((r_out # NoParser) <=>
            r_info.in_type \in {"InTypeInt8", "InTypeUInt8", "InTypeInt16", "InTypeUInt16",
                                "InTypeInt32", "InTypeUInt32", "InTypeInt64",
                                "InTypeUInt64", "InTypePointer"})

\* C7 amended: an array field has an array strategy exactly when its in_type is a
\* signed or unsigned integer of 16, 32 or 64 bits or a pointer; every other array
\* in_type, the 8-bit integers included, has no strategy.
C7_ArrayOf16To64BitIntegers ==
    (r_out # "unresolved" /\ r_info.kind = "Array") =>
        /\ (r_out # NoParser) <=>
              r_info.in_type \in {"InTypeInt16", "InTypeUInt16", "InTypeInt32",
                                  "InTypeUInt32", "InTypeInt64", "InTypeUInt64",
                                  "InTypePointer"}
        /\ r_out \in {NoParser, "ArrayInt16", "ArrayUInt16", "ArrayInt32", "ArrayUInt32",
                      "ArrayInt64", "ArrayUInt64", "ArrayPointer"}

\* an array of pointers was resolved
C7_Witness ==
    /\ r_info.kind = "Array" /\ r_info.in_type = "InTypePointer"
    /\ r_out = "ArrayPointer"

====
